---- MODULE Spec2Model ----
(***************************************************************************)
(* Model of PyMicrotops/microtops.py: the Microtops class.                 *)
(*                                                                         *)
(*   Construct  = Microtops.__init__ -> _load_file -> _process_wavelengths *)
(*   Aot        = Microtops.aot                                            *)
(*                                                                         *)
(* Text is modelled at token level: a line is a sequence of comma          *)
(* separated fields, a field is a sequence of tokens (a token is a short   *)
(* string that the code never looks inside, except for the substring       *)
(* tests "Na" and "AOT" which are decided per token).  Line numbers are    *)
(* Python's (0-based); TLA+ sequences are 1-based, so content[i] of the    *)
(* code is content[i + 1] here.                                            *)
(*                                                                         *)
(* The module runs under Python 2 and Python 3, which differ in what       *)
(* range() returns (a list, an immutable range); py chooses.  Exceptions   *)
(* are values: an operator returns the name of what it raised in err.      *)
(* Cell values are kept as the text of the cell, and the Angstrom formula  *)
(* as the pair of cells it is applied to; no arithmetic on AOT values is   *)
(* modelled.                                                               *)
(***************************************************************************)
EXTENDS Integers, Sequences, FiniteSets, TLC

\* ------------------------------------------------------------------ bounds
\* longest file (in lines) tried with the instrument's own header row
MaxLines == 4
\* longest file (in lines) tried with every header row of Headers
MaxQLines == 3
\* largest explicit skiprows count / index tried
MaxSkip == 1
\* largest target wavelength asked of aot (the catalogs use 2..4)
MaxWl == 5

\* ----------------------------------------------------------- Python values
\* None where the code holds a line index (end_index) or a time bound
NoneIndex == -1
\* marker of a local variable that was never assigned
Unbound == "unbound"
\* marker of a wavelength variable that was never assigned
NoWv == -1

\* ------------------------------------------------------------ the raw file
\* default of the parameter data_start
DataStart == << <<"FIELDS:">> >>
\* default of the parameter ending
Ending == << <<"END.">> >>

\* The header rows tried.  Column names are token sequences: <<"AOT","2">>
\* is the column "AOT2", <<"AOT","0","2">> is "AOT02".
ColDATE == <<"DATE">>
ColTIME == <<"TIME">>
AOTc(d) == <<"AOT">> \o d

\* the instrument's layout, channels in ascending order
HdrAsc == <<ColDATE, ColTIME, AOTc(<<"2">>), AOTc(<<"4">>), <<"WATER">>>>
\* the same channels, columns in descending order
HdrDesc == <<ColDATE, ColTIME, AOTc(<<"4">>), AOTc(<<"2">>), <<"WATER">>>>
\* three channels
HdrThree == <<ColDATE, ColTIME, AOTc(<<"2">>), AOTc(<<"3">>), AOTc(<<"4">>)>>
\* a channel written with a leading zero
HdrPadded == <<ColDATE, ColTIME, AOTc(<<"0", "2">>), AOTc(<<"4">>), <<"WATER">>>>
\* no AOT column at all
HdrNoAot == <<ColDATE, ColTIME, <<"SN">>, <<"ID">>, <<"WATER">>>>
\* an AOT column whose remainder is no integer
HdrBadAot == <<ColDATE, ColTIME, AOTc(<<"2">>), AOTc(<<"x">>), <<"WATER">>>>
\* no DATE column
HdrNoDate == <<<<"SN">>, ColTIME, AOTc(<<"2">>), AOTc(<<"4">>), <<"WATER">>>>

Headers == {HdrAsc, HdrDesc, HdrThree, HdrPadded, HdrNoAot, HdrBadAot, HdrNoDate}

\* The kinds of line a file is made of.
LineIds == {"FIELDS", "END", "HDR", "R1", "R2", "RN"}

\* The text of a line of kind id in a file whose header row is h.
LineText(id, h) ==
  CASE id = "FIELDS" -> DataStart
    [] id = "END" -> Ending
    [] id = "HDR" -> h
    [] id = "R1" -> << <<"d">>, <<"t1">>, <<"a1">>, <<"b1">>, <<"c1">> >>
    [] id = "R2" -> << <<"d">>, <<"t2">>, <<"a2">>, <<"b2">>, <<"c2">> >>
    [] id = "RN" -> << <<"d">>, <<"t1">>, <<"NaN">>, <<"b3">>, <<"c3">> >>

\* f.readlines(): every line with its line terminator.
ReadLines(ids, h) ==
  [i \in 1..Len(ids) |-> [text |-> LineText(ids[i], h), eol |-> "\n"]]

\* str.strip() drops the surrounding whitespace, here the line terminator.
Strip(line) == line.text

\* "Na" in s, decided per token.
TokenHasNa(tok) == tok \in {"NaN", "Na", "Name"}
ContainsNa(text) ==
  \E i \in 1..Len(text) : \E j \in 1..Len(text[i]) : TokenHasNa(text[i][j])

\* ---------------------------------------------------------- Python helpers
\* the items of range(lo, hi), in order
RangeItems(lo, hi) == [i \in 1..(IF hi > lo THEN hi - lo ELSE 0) |-> lo + i - 1]

\* range(lo, hi): a list under Python 2, an immutable range under Python 3
PyRange(lo, hi, py_) ==
  [kind |-> IF py_ = 2 THEN "list" ELSE "range", items |-> RangeItems(lo, hi)]

PyList(items) == [kind |-> "list", items |-> items]
PyUnbound == [kind |-> Unbound, items |-> <<>>]
Unreached == [kind |-> "unreached", items |-> <<>>]

\* x in seq
In(x, seq) == \E i \in 1..Len(seq) : seq[i] = x

\* seq.index(x) gone wrong: the last position of x
IndexLast(seq, x) ==
  (CHOOSE i \in 1..Len(seq) : seq[i] = x /\ \A k \in (i + 1)..Len(seq) : seq[k] # x) - 1

\* seq.index(x): the first position of x, 0-based
RECURSIVE IndexFrom(_, _, _)
IndexFrom(seq, x, i) ==
  IF seq[i + 1] = x THEN i ELSE IndexFrom(seq, x, i + 1)
Index(seq, x) == IndexFrom(seq, x, 0)

\* ------------------------------------------------------------- _load_file
\* content = [x.strip() for x in content]
Content(raw) == [i \in 1..Len(raw) |-> Strip(raw[i])]

\* The skiprows arguments tried: None, a count, a list of indices, a string.
SkipNone == [type |-> "NoneType", n |-> 0, list |-> <<>>]
SkipInt(n) == [type |-> "int", n |-> n, list |-> <<>>]
SkipList(l) == [type |-> "list", n |-> 0, list |-> l]
SkipStr == [type |-> "str", n |-> 0, list |-> <<>>]

\* Lines 62-76: the lines to skip before the footer and the "Na" scan.
\* [err, to_skip]
HeaderStep(content, skiprows_, data_start, py_) ==
  IF skiprows_.type = "int"
  THEN [err |-> "", to_skip |-> PyRange(0, skiprows_.n + 1, py_)]
  ELSE IF skiprows_.type = "NoneType"
  THEN IF In(data_start, content)
       THEN [err |-> "", to_skip |-> PyRange(0, Index(content, data_start) + 1, py_)]
       ELSE [err |-> "", to_skip |-> PyList(<<>>)]
  ELSE IF skiprows_.type # "list"
  THEN [err |-> "TypeError", to_skip |-> PyUnbound]
  ELSE [err |-> "", to_skip |-> PyUnbound]

\* Lines 79-82: the index of the last line when it is the ending, else None.
\* content[-1] of an empty file raises IndexError.
EndIndex(content, ending) ==
  IF Len(content) = 0 THEN [err |-> "IndexError", end_index |-> NoneIndex]
  ELSE IF content[Len(content)] = ending
  THEN [err |-> "", end_index |-> Len(content) - 1]
  ELSE [err |-> "", end_index |-> NoneIndex]

\* Lines 84-85: append the footer index unless to_skip holds it already.
FooterStep(to_skip, end_index) ==
  IF end_index = NoneIndex THEN [err |-> "", to_skip |-> to_skip]
  ELSE IF to_skip.kind = Unbound
  THEN [err |-> "UnboundLocalError", to_skip |-> to_skip]
  ELSE IF In(end_index, to_skip.items) THEN [err |-> "", to_skip |-> to_skip]
  ELSE IF to_skip.kind = "range"
  THEN [err |-> "AttributeError", to_skip |-> to_skip]
  ELSE [err |-> "", to_skip |-> PyList(Append(to_skip.items, end_index))]

\* Lines 88-92: the indices of the lines that contain "Na", ascending.
RECURSIVE NanLinesFrom(_, _)
NanLinesFrom(content, i) ==
  IF i >= Len(content) THEN <<>>
  ELSE (IF ContainsNa(content[i + 1]) THEN <<i>> ELSE <<>>)
       \o NanLinesFrom(content, i + 1)
NanLines(content) == NanLinesFrom(content, 0)

\* Lines 93-95: to_skip = to_skip + nan_lines when there are any.
NanStep(to_skip, nan_lines) ==
  IF nan_lines = <<>> THEN [err |-> "", to_skip |-> to_skip]
  ELSE IF to_skip.kind = Unbound
  THEN [err |-> "UnboundLocalError", to_skip |-> to_skip]
  ELSE IF to_skip.kind = "range"
  THEN [err |-> "TypeError", to_skip |-> to_skip]
  ELSE [err |-> "", to_skip |-> PyList(to_skip.items \o nan_lines)]

\* pd.read_csv(filename, skiprows=to_skip): the lines of the file whose index
\* is not skipped; the first is the header row, the others the data rows.  A
\* row shorter than the header is padded with NaN, a longer one is refused.
NaNCell == <<"nan">>
RECURSIVE KeptFrom(_, _, _)
KeptFrom(raw, skip, i) ==
  IF i >= Len(raw) THEN <<>>
  ELSE (IF In(i, skip) THEN <<>> ELSE <<raw[i + 1].text>>) \o KeptFrom(raw, skip, i + 1)
PadRow(fields, n) ==
  [j \in 1..n |-> IF j <= Len(fields) THEN fields[j] ELSE NaNCell]
ReadCsv(raw, skip) ==
  LET kept == KeptFrom(raw, skip, 0)
      columns == kept[1]
      body == Tail(kept)
  IN IF kept = <<>> THEN [err |-> "EmptyDataError", columns |-> <<>>, rows |-> <<>>]
     ELSE IF \E i \in 1..Len(body) : Len(body[i]) > Len(columns)
     THEN [err |-> "ParserError", columns |-> columns, rows |-> <<>>]
     ELSE [err |-> "", columns |-> columns,
           rows |-> [i \in 1..Len(body) |-> PadRow(body[i], Len(columns))]]

\* s[name] of a row: the cell of the first column called name
ColPos(columns, name) == CHOOSE j \in 1..Len(columns) : columns[j] = name

\* dateutil's parse(date + " " + time): the time stamp a row's two fields
\* denote, 0 when they denote none
ParseDate(d, t) ==
  IF d = <<"d">> /\ t = <<"t1">> THEN 1
  ELSE IF d = <<"d">> /\ t = <<"t2">> THEN 2
  ELSE 0

\* Lines 99-102: f of one row. [err, index]
RowIndex(columns, cells) ==
  IF ~In(ColDATE, columns) \/ ~In(ColTIME, columns)
  THEN [err |-> "KeyError", index |-> 0]
  ELSE LET d == cells[ColPos(columns, ColDATE)]
           t == cells[ColPos(columns, ColTIME)]
       IN IF d = NaNCell \/ t = NaNCell THEN [err |-> "TypeError", index |-> 0]
          ELSE IF ParseDate(d, t) = 0 THEN [err |-> "ValueError", index |-> 0]
          ELSE [err |-> "", index |-> ParseDate(d, t)]

\* Line 102: the table indexed by time stamp; the first row that f refuses
\* ends the construction.  On a table without rows apply() hands back the
\* empty table itself, of which DatetimeIndex makes no index of length 0:
\* the assignment raises.
SetIndex(columns, rows) ==
  LET ix == [i \in 1..Len(rows) |-> RowIndex(columns, rows[i])]
      bad == {i \in 1..Len(rows) : ix[i].err # ""}
      first == CHOOSE i \in bad : \A k \in bad : i <= k
  IN IF rows = <<>>
     THEN [err |-> "ValueError", rows |-> <<>>]
     ELSE IF bad # {} THEN [err |-> ix[first].err, rows |-> <<>>]
     ELSE [err |-> "",
           rows |-> [i \in 1..Len(rows) |-> [index |-> ix[i].index, cells |-> rows[i]]]]

\* ---------------------------------------------------- _process_wavelengths
DigitChars == <<"0", "1", "2", "3", "4", "5", "6", "7", "8", "9">>
IsDigit(c) == In(c, DigitChars)
DigitVal(c) == (CHOOSE i \in 1..10 : DigitChars[i] = c) - 1

\* int(s) of a token sequence: its value when it is a non-empty run of
\* digits (leading zeros allowed), else a ValueError. [err, v]
RECURSIVE DigitsValue(_)
DigitsValue(ds) ==
  IF ds = <<>> THEN 0
  ELSE 10 * DigitsValue(SubSeq(ds, 1, Len(ds) - 1)) + DigitVal(ds[Len(ds)])
IntOfStr(ds) ==
  IF ds # <<>> /\ \A i \in 1..Len(ds) : IsDigit(ds[i])
  THEN [err |-> "", v |-> DigitsValue(ds)]
  ELSE [err |-> "ValueError", v |-> 0]

\* '%d' % n for n >= 0: the decimal digits, no padding
RECURSIVE FormatD(_)
FormatD(n) ==
  IF n < 10 THEN <<DigitChars[n + 1]>>
  ELSE FormatD(n \div 10) \o <<DigitChars[(n % 10) + 1]>>

\* 'AOT' in c
HasAOT(c) == In("AOT", c)
\* x.replace('AOT', '')
StripAOT(c) == SelectSeq(c, LAMBDA tok : tok # "AOT")

\* Lines 127-130. [err, wavelengths]
ProcessWavelengths(columns) ==
  LET aot_cols == SelectSeq(columns, HasAOT)
      parsed == [i \in 1..Len(aot_cols) |-> IntOfStr(StripAOT(aot_cols[i]))]
  IN IF \E i \in 1..Len(parsed) : parsed[i].err # ""
     THEN [err |-> "ValueError", wavelengths |-> <<>>]
     ELSE [err |-> "", wavelengths |-> [i \in 1..Len(parsed) |-> parsed[i].v]]

\* ------------------------------------------------ _load_file, as a whole
\* The locals of _load_file when it returns or raises, and what it stored.
\* A step that was not reached leaves Unreached behind.
Frame(err, hdr, endx, ftr, nan, parse, data, wvs) ==
  [err |-> err, hdr_skip |-> hdr, end_index |-> endx, ftr_skip |-> ftr,
   nan_lines |-> nan, parse_skip |-> parse, data |-> data, wavelengths |-> wvs]
NoData == [columns |-> <<>>, rows |-> <<>>]

LoadFile(raw, skiprows_, data_start, ending, py_) ==
  LET content == Content(raw)
      h == HeaderStep(content, skiprows_, data_start, py_)
      e == EndIndex(content, ending)
      f == FooterStep(h.to_skip, e.end_index)
      nan_lines == NanLines(content)
      n == NanStep(f.to_skip, nan_lines)
      csv == ReadCsv(raw, n.to_skip.items)
      ix == SetIndex(csv.columns, csv.rows)
      w == ProcessWavelengths(csv.columns)
  IN IF h.err # ""
     THEN Frame(h.err, Unreached, NoneIndex, Unreached, <<>>, Unreached, NoData, <<>>)
     ELSE IF e.err # ""
     THEN Frame(e.err, h.to_skip, NoneIndex, Unreached, <<>>, Unreached, NoData, <<>>)
     ELSE IF f.err # ""
     THEN Frame(f.err, h.to_skip, e.end_index, Unreached, <<>>, Unreached, NoData, <<>>)
     ELSE IF n.err # ""
     THEN Frame(n.err, h.to_skip, e.end_index, f.to_skip, nan_lines, Unreached,
                NoData, <<>>)
     ELSE IF n.to_skip.kind = Unbound
     THEN Frame("UnboundLocalError", h.to_skip, e.end_index, f.to_skip, nan_lines,
                Unreached, NoData, <<>>)
     ELSE IF csv.err # ""
     THEN Frame(csv.err, h.to_skip, e.end_index, f.to_skip, nan_lines, n.to_skip,
                NoData, <<>>)
     ELSE IF ix.err # ""
     THEN Frame(ix.err, h.to_skip, e.end_index, f.to_skip, nan_lines, n.to_skip,
                NoData, <<>>)
     ELSE IF w.err # ""
     THEN Frame(w.err, h.to_skip, e.end_index, f.to_skip, nan_lines, n.to_skip,
                [columns |-> csv.columns, rows |-> ix.rows], <<>>)
     ELSE Frame("", h.to_skip, e.end_index, f.to_skip, nan_lines, n.to_skip,
                [columns |-> csv.columns, rows |-> ix.rows], w.wavelengths)

\* -------------------------------------------------------------------- aot
\* Line 143: self.data[start_time:end_time], the rows whose time stamp lies
\* in the closed window, in the order of the table.
InWindow(t, start_time, end_time) ==
  /\ (start_time = NoneIndex \/ start_time <= t)
  /\ (end_time = NoneIndex \/ t <= end_time)
\* the slice gone wrong: the end bound left out, as for integer slices
SliceHalfOpen(rows, start_time, end_time) ==
  SelectSeq(rows, LAMBDA r : /\ InWindow(r.index, start_time, end_time)
                             /\ r.index # end_time)

Slice(rows, start_time, end_time) ==
  SelectSeq(rows, LAMBDA r : InWindow(r.index, start_time, end_time))

\* Line 145: int(wavelength) of a wavelength given in tenths of a nanometre
IntOf(w10) == w10 \div 10

\* "AOT%d" % wv
ColName(wv) == <<"AOT">> \o FormatD(wv)

\* np.argmin of a non-empty array: the first position of its minimum, 0-based
ArgMin(a) ==
  (CHOOSE i \in 1..Len(a) :
     /\ \A k \in 1..Len(a) : a[i] <= a[k]
     /\ \A k \in 1..(i - 1) : a[k] > a[i]) - 1

\* Lines 155-165: [warned, err, wv_below]
WvBelow(wvs, diff) ==
  LET pos == SelectSeq(diff, LAMBDA d : d > 0)
  IN IF pos # <<>> THEN [warned |-> 0, err |-> "", wv |-> wvs[ArgMin(pos) + 1]]
     ELSE IF wvs = <<>> THEN [warned |-> 1, err |-> "IndexError", wv |-> NoWv]
     ELSE [warned |-> 1, err |-> "", wv |-> wvs[1]]

\* Lines 166-174: [warned, wv_below, wv_above]; wv_below is the one found
\* before
WvAbove(wvs, diff, wv_below) ==
  LET neg == SelectSeq(diff, LAMBDA d : d < 0)
  IN IF neg # <<>>
     THEN [warned |-> 0, wv_below |-> wv_below, wv_above |-> wvs[ArgMin(neg) + 1]]
     ELSE [warned |-> 1, wv_below |-> wvs[Len(wvs)], wv_above |-> NoWv]

\* the values a returned Series carries, one per row of the window
Stored(r, columns, name) ==
  [index |-> r.index, op |-> "stored", cell |-> r.cells[ColPos(columns, name)],
   below |-> <<>>, above |-> <<>>]
\* Lines 180-183 for one row: the Angstrom formula applied to two cells
Angstrom(r, columns, below, above) ==
  [index |-> r.index, op |-> "angstrom", cell |-> <<>>,
   below |-> r.cells[ColPos(columns, below)],
   above |-> r.cells[ColPos(columns, above)]]

Result(err, path, wavelength, warnings, wv_below, wv_above, series) ==
  [err |-> err, path |-> path, wavelength |-> wavelength, warnings |-> warnings,
   wv_below |-> wv_below, wv_above |-> wv_above, series |-> series]

\* Lines 143-185
AotOf(data_, wavelengths_, w10, start_time, end_time) ==
  LET rows == Slice(data_.rows, start_time, end_time)
      columns == data_.columns
      wavelength == IntOf(w10)
      wvs == wavelengths_
      diff == [i \in 1..Len(wvs) |-> wavelength - wvs[i]]
      b == WvBelow(wvs, diff)
      a == WvAbove(wvs, diff, b.wv)
      warnings == b.warned + a.warned
  IN IF In(wavelength, wavelengths_)
     THEN IF ~In(ColName(wavelength), columns)
          THEN Result("KeyError", "native", wavelength, 0, NoWv, NoWv, <<>>)
          ELSE Result("", "native", wavelength, 0, NoWv, NoWv,
                      [i \in 1..Len(rows) |->
                         Stored(rows[i], columns, ColName(wavelength))])
     ELSE IF b.err # ""
     THEN Result(b.err, "interpolate", wavelength, b.warned, NoWv, NoWv, <<>>)
     ELSE IF ~In(ColName(a.wv_below), columns)
     THEN Result("KeyError", "interpolate", wavelength, warnings,
                 a.wv_below, a.wv_above, <<>>)
     ELSE IF a.wv_above = NoWv
     THEN Result("UnboundLocalError", "interpolate", wavelength, warnings,
                 a.wv_below, a.wv_above, <<>>)
     ELSE IF ~In(ColName(a.wv_above), columns)
     THEN Result("KeyError", "interpolate", wavelength, warnings,
                 a.wv_below, a.wv_above, <<>>)
     ELSE Result("", "interpolate", wavelength, warnings, a.wv_below, a.wv_above,
                 [i \in 1..Len(rows) |->
                    Angstrom(rows[i], columns, ColName(a.wv_below),
                             ColName(a.wv_above))])

\* ---------------------------------------------------------- state machine
VARIABLES
  file,        \* the kinds of the lines of the file on disk
  header,      \* the text of its header row(s)
  skiprows,    \* the skiprows argument of the constructor
  py,          \* the major version of the interpreter, 2 or 3
  state,       \* "new" before __init__, then "ok" or "failed"
  data,        \* self.data
  wavelengths, \* self.wavelengths
  load,        \* the locals of _load_file as it ended
  call,        \* the arguments of the last aot call
  ret          \* what the last aot call returned or raised

vars == <<file, header, skiprows, py, state, data, wavelengths, load, call, ret>>

\* all sequences over S of length at most n
RECURSIVE SeqsUpTo(_, _)
SeqsUpTo(S, n) ==
  IF n = 0 THEN {<<>>}
  ELSE SeqsUpTo(S, n - 1) \cup
       {Append(q, x) : q \in {p \in SeqsUpTo(S, n - 1) : Len(p) = n - 1}, x \in S}

SkipRowsTried ==
  {SkipNone, SkipStr} \cup {SkipInt(n) : n \in 0..MaxSkip}
    \cup {SkipList(<<>>)} \cup {SkipList(<<i>>) : i \in 0..MaxSkip}

NoCall == [wavelength |-> 0, start_time |-> NoneIndex, end_time |-> NoneIndex]
NoRet == Result("none", "none", 0, 0, NoWv, NoWv, <<>>)

\* Before the constructor runs: a file on disk and the arguments.  Files in
\* the instrument's layout are tried at every length up to MaxLines and with
\* every skiprows; the other header rows with shorter files and the
\* automatic skiprows.
Init ==
  /\ \/ /\ header = HdrAsc
        /\ file \in SeqsUpTo(LineIds, MaxLines)
        /\ skiprows \in SkipRowsTried
     \/ /\ header \in Headers
        /\ file \in SeqsUpTo(LineIds, MaxQLines)
        /\ skiprows = SkipNone
  /\ py \in {2, 3}
  /\ state = "new"
  /\ data = NoData
  /\ wavelengths = <<>>
  /\ load = Frame("none", Unreached, NoneIndex, Unreached, <<>>, Unreached, NoData, <<>>)
  /\ call = NoCall
  /\ ret = NoRet

\* Microtops(filename, skiprows): lines 33-34, 47-104, 123-130
Construct ==
  /\ state = "new"
  /\ load' = LoadFile(ReadLines(file, header), skiprows, DataStart, Ending, py)
  /\ state' = IF load'.err = "" THEN "ok" ELSE "failed"
  /\ data' = IF load'.err = "" THEN load'.data ELSE NoData
  /\ wavelengths' = IF load'.err = "" THEN load'.wavelengths ELSE <<>>
  /\ UNCHANGED <<file, header, skiprows, py, call, ret>>

\* the wavelengths asked for, in tenths: whole ones and halves
Targets == {10 * w + f : w \in 1..MaxWl, f \in {0, 5}}
\* the windows asked for: unbounded, from the later time stamp on, up to the
\* earlier one, and the empty one between them (the rows carry 1 and 2)
StartTimes == {NoneIndex, ParseDate(<<"d">>, <<"t2">>)}
EndTimes == {NoneIndex, ParseDate(<<"d">>, <<"t1">>)}

\* aot gone wrong: the slice assigned back to self.data
AotInPlace ==
  /\ state = "ok"
  /\ \E w10 \in Targets, start_time \in StartTimes, end_time \in EndTimes :
       /\ call' = [wavelength |-> w10, start_time |-> start_time, end_time |-> end_time]
       /\ ret' = AotOf(data, wavelengths, w10, start_time, end_time)
       /\ data' = [data EXCEPT !.rows = Slice(data.rows, start_time, end_time)]
  /\ UNCHANGED <<file, header, skiprows, py, state, wavelengths, load>>

\* m.aot(wavelength, start_time, end_time): lines 132-185
Aot ==
  /\ state = "ok"
  /\ \E w10 \in Targets, start_time \in StartTimes, end_time \in EndTimes :
       /\ call' = [wavelength |-> w10, start_time |-> start_time, end_time |-> end_time]
       /\ ret' = AotOf(data, wavelengths, w10, start_time, end_time)
  /\ UNCHANGED <<file, header, skiprows, py, state, data, wavelengths, load>>

Next == Construct \/ Aot

Spec == Init /\ [][Next]_vars

\* ================================================================ claims
\* What the claims speak of, read off the file and the object, not off the
\* operators above.

\* the wavelength catalog as a set
Catalog == {wavelengths[i] : i \in 1..Len(wavelengths)}
\* an aot call has run on a constructed object
Called == state = "ok" /\ ret.err # "none"
\* the integer the call's wavelength is coerced to
Target == CHOOSE n \in 0..(MaxWl + 1) : 10 * n <= call.wavelength /\ call.wavelength < 10 * n + 10
\* the name of column AOT<w> for a one-digit w
CanonName(w) == <<"AOT", DigitChars[w + 1]>>
HasColumn(name) == \E j \in 1..Len(data.columns) : data.columns[j] = name
\* the positions of the rows of the Dataset that lie in the call's window
WindowRows ==
  {i \in 1..Len(data.rows) :
     /\ (call.start_time = NoneIndex \/ call.start_time <= data.rows[i].index)
     /\ (call.end_time = NoneIndex \/ data.rows[i].index <= call.end_time)}
\* the rank of row i among the rows of the window
Rank(i) == Cardinality({k \in WindowRows : k <= i})
\* the returned series is column name of the rows of the window, in order
ReturnsColumn(name) ==
  LET j == CHOOSE c \in 1..Len(data.columns) : data.columns[c] = name
  IN /\ Len(ret.series) = Cardinality(WindowRows)
     /\ \A i \in WindowRows :
          /\ ret.series[Rank(i)].index = data.rows[i].index
          /\ ret.series[Rank(i)].op = "stored"
          /\ ret.series[Rank(i)].cell = data.rows[i].cells[j]
NativePassthrough ==
  /\ ret.err = ""
  /\ ret.path = "native"
  /\ ret.warnings = 0
  /\ ret.wv_below = NoWv /\ ret.wv_above = NoWv
  /\ HasColumn(CanonName(Target))
  /\ ReturnsColumn(CanonName(Target))

\* C1 as stated: for every constructed object and every wavelength whose
\* integer coercion is in the catalog, aot returns the stored values of
\* column AOT<w> for the rows of the window, in dataset order, without
\* neighbour selection and without a warning.
C1_NativeAlways == (Called /\ Target \in Catalog) => NativePassthrough

\* C1 amended: the same, for the catalog wavelengths whose column is named
\* AOT<w> with w in plain decimal (no leading zero), as the instrument
\* writes it.
C1_NativeCanonical ==
  (Called /\ Target \in Catalog /\ HasColumn(CanonName(Target))) => NativePassthrough

\* a native wavelength, given as a fraction, was asked over a window that
\* keeps some rows and drops others
C1_Witness ==
  /\ Called /\ Target \in Catalog /\ HasColumn(CanonName(Target))
  /\ call.wavelength # 10 * Target
  /\ WindowRows # {} /\ Cardinality(WindowRows) < Len(data.rows)
  /\ ret.err = ""

\* the target is no catalog wavelength
Interpolating == Called /\ Target \notin Catalog
Above == {c \in Catalog : c > Target}
Below == {c \in Catalog : c < Target}
Min(S) == CHOOSE x \in S : \A y \in S : x <= y
Max(S) == CHOOSE x \in S : \A y \in S : x >= y

\* C2: for a non-catalog target with a catalog wavelength above it, the
\* wv_above chosen by aot is the smallest catalog wavelength greater than it.
C2_AboveIsNearest == (Interpolating /\ Above # {}) => ret.wv_above = Min(Above)

\* C3: for a non-catalog target greater than every catalog wavelength, aot
\* warns and completes, returning one value per row of the window.
C3_ExtrapolateAboveCompletes ==
  (Interpolating /\ Catalog # {} /\ Above = {}) =>
    /\ ret.warnings >= 1
    /\ ret.err = ""
    /\ Len(ret.series) = Cardinality(WindowRows)

\* C4: for a non-catalog target smaller than every catalog wavelength, aot
\* warns exactly once and uses the minimum catalog wavelength as wv_below,
\* whatever the order of the AOT columns.
C4_ExtrapolateBelowUsesMin ==
  (Interpolating /\ Catalog # {} /\ Below = {}) =>
    /\ ret.warnings = 1
    /\ ret.wv_below = Min(Catalog)

\* C9: for a non-catalog target with a catalog wavelength below it, the
\* wv_below chosen by aot is the largest catalog wavelength less than it,
\* whatever the order of the AOT columns.
C9_BelowIsNearest == (Interpolating /\ Below # {}) => ret.wv_below = Max(Below)

\* ---- the loader's claims, read off the file
Constructed == state # "new"
Items(to_skip) == {to_skip.items[i] : i \in 1..Len(to_skip.items)}
Reached(to_skip) == to_skip.kind \in {"list", "range"}
\* the lines equal to the header marker, the "Na" lines, the footer line
MarkerLines == {i \in 0..(Len(file) - 1) : file[i + 1] = "FIELDS"}
NaLines == {i \in 0..(Len(file) - 1) : file[i + 1] = "RN"}
FooterLines == IF Len(file) > 0 /\ file[Len(file)] = "END" THEN {Len(file) - 1} ELSE {}
\* how often x occurs in the list
Count(to_skip, x) == Cardinality({i \in 1..Len(to_skip.items) : to_skip.items[i] = x})

\* C5: with skiprows a list, the constructor gets to the table parsing and
\* the lines it discards are the given indices, the footer index and the
\* "Na" lines, whether or not the file ends with the footer or holds "Na".
C5_ListModeDiscards ==
  (Constructed /\ skiprows.type = "list" /\ Len(file) > 0) =>
    /\ Reached(load.parse_skip)
    /\ Items(load.parse_skip) =
         {skiprows.list[i] : i \in 1..Len(skiprows.list)} \cup FooterLines \cup NaLines

\* C6: with skiprows None the leading lines discarded are 0..i, i the first
\* line equal to the header marker, and none when no line equals it; the
\* set handed to the table parsing is these, the footer and the "Na" lines.
C6_AutoDetectLeading ==
  (Constructed /\ skiprows.type = "NoneType") =>
    LET leading == IF MarkerLines = {} THEN {} ELSE 0..Min(MarkerLines)
    IN /\ Reached(load.hdr_skip)
       /\ Items(load.hdr_skip) = leading
       /\ Reached(load.parse_skip) =>
            Items(load.parse_skip) = leading \cup FooterLines \cup NaLines

\* the marker stands after a preamble and once more further down, and the
\* table was parsed
C6_Witness ==
  /\ Constructed /\ skiprows.type = "NoneType"
  /\ Cardinality(MarkerLines) >= 2 /\ Min(MarkerLines) >= 1
  /\ Reached(load.parse_skip)

\* C7: in every skip-row mode every line that contains "Na" is in the
\* discard set handed to the table parsing.
C7_NaLinesDiscarded ==
  (Constructed /\ skiprows.type \in {"int", "list", "NoneType"} /\ NaLines # {}) =>
    /\ Reached(load.parse_skip)
    /\ NaLines \subseteq Items(load.parse_skip)

\* C10: in every skip-row mode the footer step completes; when the last
\* line is the footer marker its index is in the discard set exactly once,
\* otherwise the step adds nothing.
C10_FooterOnce ==
  (Constructed /\ skiprows.type \in {"int", "list", "NoneType"} /\ Len(file) > 0) =>
    /\ load.ftr_skip.kind # "unreached"
    /\ FooterLines # {} =>
         /\ Reached(load.ftr_skip)
         /\ Count(load.ftr_skip, Len(file) - 1) = 1
    /\ FooterLines = {} => load.ftr_skip = load.hdr_skip

\* C8: once the object is constructed no aot call, whatever it returns or
\* raises, changes the Dataset or the catalog, and a call repeated with the
\* same arguments gives the same result.
C8_QueriesArePure ==
  [][state = "ok" =>
       /\ state' = "ok"
       /\ data' = data
       /\ wavelengths' = wavelengths
       /\ (ret.err # "none" /\ call' = call) => ret' = ret]_vars

\* an interpolated query over a window that drops rows has run, and the
\* Dataset still holds every row
C8_Witness ==
  /\ Called /\ ret.path = "interpolate" /\ ret.err = ""
  /\ WindowRows # {} /\ Cardinality(WindowRows) < Len(data.rows)
  /\ Len(ret.series) = Cardinality(WindowRows)

====
